---- MODULE Spec2Model ----
(***************************************************************************)
(* The wager settlement engine of badassinvoices: the lottery routes       *)
(* (api/src/routes/lottery.ts) over the SQLite store (api/src/db.ts).      *)
(*                                                                         *)
(* The store (invoices, lottery_pools, lottery_entries) is shared by every *)
(* service instance.  better-sqlite3 is synchronous, so inside one Node    *)
(* process a handler runs without interleaving up to its first await; two  *)
(* instances sharing the store file interleave between statements, and     *)
(* only a db.transaction is atomic for them.  The settle handler is        *)
(* therefore modelled in three steps: SettleBegin (lines 268-328, the      *)
(* reads and the decision), SettleCommit (lines 330-392, the transaction   *)
(* and the handling of its result) and RefundOk / RefundFail (lines        *)
(* 394-431, what follows the awaited sendRefund).                          *)
(***************************************************************************)
EXTENDS Integers, Sequences, FiniteSets, Bags, TLC

(***************************************************************************)
(* Bounds of the model.                                                    *)
(***************************************************************************)
NumInvoices == 2        \* invoices in the store of Spec (one entry each)
MaxRequests == 3        \* settle requests received in a run of Spec
RaceEntries == 13       \* invoices, entries and settle requests of SpecRace
EntryInvoices == 1      \* invoices in the store of SpecEntry
MaxEntryFrames == 2     \* POST /entry handlers in flight at once in SpecEntry
MaxVerifyFrames == 1    \* POST /verify-payment handlers in flight at once in SpecPayment
SampleBits == 6          \* width of a raw sample of secureRandomInt (32 in the code)
MaxQuoteBalance == 24   \* largest pool balance in SpecQuote
MaxQuoteRefund == 6     \* largest refund put to the governor in SpecQuote

(***************************************************************************)
(* Program constants.                                                      *)
(***************************************************************************)
DEFAULT_HOUSE_EDGE_BPS == 500
DEFAULT_MIN_RESERVE_BPS == 2000
DEFAULT_MAX_WIN_BPS == 1000
RATE_WINDOW_MS == 60000
MAX_PER_MINUTE == 5
RANDOM_RANGE == 10000
MAX_WIN_PROBABILITY_BPS == 5000
MIN_POOL_THRESHOLD == 5000000

\* SQL NULL of an INTEGER column and of a TEXT column.
NullInt == -1
NullText == "NULL"

\* The one currency of the model; every invoice is denominated in it.
Mints == {"USDC"}
NoPool == [exists |-> FALSE]

\* The values lottery_entries.status may take under the CHECK of db.ts:91, and
\* under the older CHECK that db.ts:126-129 and lottery.ts:405-410 provide for.
CurrentStatusCheck == {"pending_vrf", "won", "lost", "refund_failed"}
LegacyStatusCheck == {"pending_vrf", "won", "lost"}

\* Inputs of the requests.
Premiums == {1}
RiskSliders == {50000}               \* thousandths of a percent; NullInt: no number
TxSignatures == {"paysig"}
Draws == {4999, 5000}                \* the last winning and the first losing draw
InitialBalances == {0, 36}           \* 0: POST /pool/init without initialBalance
RandomHexes == {"entropy"}
RefundSignatures == {"refundsig"}
Clock == [start |-> 1000, tick |-> 20000, last |-> 81000]
SpecInput == [amount |-> 2, wallet |-> 1]

\* Inputs of POST /entry in SpecLimiter and SpecEntry: absent fields (NullInt),
\* an unknown invoice, a malformed wallet (0), premiums that are absent or zero
\* (0) and negative, and risk levels that are absent, fractional, negative and
\* above the cap (in thousandths of a percent).
EntryInput == [unknownInvoice |-> 99]
EntryWallets == {NullInt, 0, 1}
EntryPremiums == {0, -2, 1}
EntrySliders == {NullInt, -20000, 12345, 60000}

\* Inputs of the payment routes in SpecPayment: a transfer below the invoice
\* amount and one that covers it; the statuses PATCH /:id/status accepts.
TransferAmounts == {SpecInput.amount - 1, SpecInput.amount}
ValidStatuses == {"pending", "paid", "cancelled", "escrow_funded"}

\* The largest raw sample, 0xFFFFFFFF in the code, at the width of the model,
\* and the arguments secureRandomInt is called with: ranges that do not divide
\* the number of raw samples (3, 10, 25) and one that does (16).
SampleMax == 2^SampleBits - 1
SampleRanges == {3, 10, 16, 25}

\* The schedule of SpecRace: a pool seeded with `seed` or with `drainSeed`,
\* then RaceEntries entries of stake `amount` and premium `premium`, all drawn
\* as wins.  From `seed` the balance runs out before the last debit; from
\* `drainSeed` the last debit takes all that is left.
Race == [seed |-> 87, drainSeed |-> 91, amount |-> 7, premium |-> 1,
         slider |-> 50000, draw |-> 0]

VARIABLES
    invoices,       \* invoices table: id -> row
    pools,          \* lottery_pools table: token_mint -> row or NoPool
    entries,        \* lottery_entries table: sequence of rows, id = index
    statusCheck,    \* the CHECK constraint of lottery_entries.status in this store
    rateLimiter,    \* the in-memory Map of checkRateLimit: wallet -> [count, reset]
    now,            \* Date.now(), in ms
    frames,         \* bag of settle handlers in flight (their local variables)
    responses,      \* the JSON responses settle has sent
    started,        \* number of settle requests received
    payoutCalls,    \* per entry: successful addPayout statements run for it
    refundCalls,    \* per entry: sendRefund invocations made for it
    entryFrames,    \* bag of POST /entry handlers between their reads and their transaction
    lastCall,       \* the latest POST /entry call and the answer it was given
    admitted,       \* the POST /entry calls checkRateLimit has let through: <<wallet, time>>
    supplied,       \* per entry: the txSignature its POST /entry request carried
    refunds,        \* the arguments of the sendRefund invocations made
    sampler,        \* secureRandomInt: its argument, the last raw sample and its result
    verifyFrames,   \* bag of POST /verify-payment handlers awaiting verifyPayment
    seeded,         \* per currency: the initialBalance POST /pool/init credited (0: none)
    payFlow,        \* the pay page's handlePay: its position after the payment confirmed
    quote           \* the last pool snapshot's maxWin and the governor's answer to a refund

vars == <<invoices, pools, entries, statusCheck, rateLimiter, now, frames,
          responses, started, payoutCalls, refundCalls, entryFrames, lastCall,
          admitted, supplied, refunds, sampler, verifyFrames, seeded,
          payFlow, quote>>

storeVars == <<invoices, pools, entries, statusCheck>>
entryVars == <<entryFrames, lastCall, admitted>>
sideVars == <<sampler, verifyFrames, seeded, payFlow, quote>>

----------------------------------------------------------------------------
(***************************************************************************)
(* Pure helpers.                                                           *)
(***************************************************************************)
Min(a, b) == IF a < b THEN a ELSE b
Max(a, b) == IF a > b THEN a ELSE b

\* Math.floor(x / 10000) for the integer x of the solvency arithmetic.
FloorDiv(x, d) == x \div d

\* A faulty variant of WinProbabilityBps: the cap left out.
WinProbabilityBpsUncapped(riskSlider) ==
    LET sliderScaled == IF riskSlider = NullInt THEN 0 ELSE riskSlider
    IN Max(FloorDiv(sliderScaled, 10), 0)

\* lottery.ts:224-225: the slider is a percentage; here in thousandths of a
\* percent, so Math.floor(sliderValue * 100) is a floor division by ten.
WinProbabilityBps(riskSlider) ==
    LET sliderScaled == IF riskSlider = NullInt THEN 0 ELSE riskSlider
    IN Min(Max(FloorDiv(sliderScaled, 10), 0), MAX_WIN_PROBABILITY_BPS)

NewPool ==
    [exists |-> TRUE,
     total_balance |-> 0,
     total_premiums_collected |-> 0,
     total_payouts |-> 0,
     total_entries |-> 0,
     total_wins |-> 0,
     house_edge_bps |-> DEFAULT_HOUSE_EDGE_BPS,
     min_pool_reserve_bps |-> DEFAULT_MIN_RESERVE_BPS,
     max_win_pct_bps |-> DEFAULT_MAX_WIN_BPS,
     paused |-> 0]

\* A faulty variant of AddPremium: the balance credited, the counters left alone.
AddPremiumBalanceOnly(pool, balanceAmount, premiumAmount) ==
    [pool EXCEPT !.total_balance = @ + balanceAmount]

\* db.ts:222-228
AddPremium(pool, balanceAmount, premiumAmount) ==
    [pool EXCEPT !.total_balance = @ + balanceAmount,
                 !.total_premiums_collected = @ + premiumAmount,
                 !.total_entries = @ + 1]

\* A faulty variant of AddPayoutChanges: the WHERE clause without the balance guard.
AddPayoutChangesUnguarded(pool, amount) ==
    IF pool.exists THEN 1 ELSE 0

\* db.ts:231-237: rows changed by addPayout (WHERE total_balance >= ?)
AddPayoutChanges(pool, amount) ==
    IF pool.exists /\ pool.total_balance >= amount THEN 1 ELSE 0

\* A faulty variant of AddPayout: the amount taken off total_payouts as well.
AddPayoutNetted(pool, amount) ==
    IF AddPayoutChanges(pool, amount) = 0 THEN pool
    ELSE [pool EXCEPT !.total_balance = @ - amount,
                      !.total_payouts = @ - amount,
                      !.total_wins = @ + 1]

AddPayout(pool, amount) ==
    IF AddPayoutChanges(pool, amount) = 0 THEN pool
    ELSE [pool EXCEPT !.total_balance = @ - amount,
                      !.total_payouts = @ + amount,
                      !.total_wins = @ + 1]

\* A faulty variant of SettleChanges: the WHERE clause without the status guard.
SettleChangesUnguarded(entry) == 1

\* db.ts:255-259: rows changed by settle (WHERE id = ? AND status = 'pending_vrf')
SettleChanges(entry) ==
    IF entry.status = "pending_vrf" THEN 1 ELSE 0

\* A faulty variant of SettleRun: the SET clause without the won column.
SettleRunWithoutWon(entry, status, won, randomResult, resolvedAt, txSig) ==
    IF SettleChanges(entry) = 0 THEN entry
    ELSE [entry EXCEPT !.status = status,
                       !.random_result = randomResult,
                       !.resolved_at = resolvedAt,
                       !.tx_signature = txSig]

\* db.ts:255-259: the row after settle.run.
SettleRun(entry, status, won, randomResult, resolvedAt, txSig) ==
    IF SettleChanges(entry) = 0 THEN entry
    ELSE [entry EXCEPT !.status = status,
                       !.won = won,
                       !.random_result = randomResult,
                       !.resolved_at = resolvedAt,
                       !.tx_signature = txSig]

\* A faulty variant of UpdateInvoiceStatus: paid_at is not written.
UpdateInvoiceStatusWithoutPaidAt(invoice, status, paidAt, txSig) ==
    [invoice EXCEPT !.status = status, !.tx_signature = txSig]

\* db.ts:148-150
UpdateInvoiceStatus(invoice, status, paidAt, txSig) ==
    [invoice EXCEPT !.status = status, !.paid_at = paidAt, !.tx_signature = txSig]

\* A faulty variant of UpdateEntryStatus: the failure path also takes the win back.
UpdateEntryStatusRevertWin(entry, status, check) ==
    IF status \in check THEN [entry EXCEPT !.status = status, !.won = 0] ELSE entry

\* db.ts:265-267 under the CHECK of the table: the statement throws, and the
\* row is left as it was, when the constraint does not admit the status
\* (lottery.ts:405-410 catches that).
UpdateEntryStatus(entry, status, check) ==
    IF status \in check THEN [entry EXCEPT !.status = status] ELSE entry

\* db.ts:261-263
UpdateRefundTx(entry, sig) ==
    [entry EXCEPT !.refund_tx_signature = sig]

\* lottery.ts:21-31, checkRateLimit: does the call pass, and the Map after it.
RateLimitFresh(limiter, key, t) ==
    key \notin DOMAIN limiter \/ t > limiter[key].reset

\* A faulty variant of CheckRateLimit: every call passes.
CheckRateLimitOpen(limiter, key, t) == TRUE

CheckRateLimit(limiter, key, t) ==
    RateLimitFresh(limiter, key, t) \/ limiter[key].count < MAX_PER_MINUTE

RateLimiterAfter(limiter, key, t) ==
    IF RateLimitFresh(limiter, key, t)
    THEN [k \in DOMAIN limiter \cup {key} |->
            IF k = key THEN [count |-> 1, reset |-> t + RATE_WINDOW_MS] ELSE limiter[k]]
    ELSE IF limiter[key].count >= MAX_PER_MINUTE THEN limiter
    ELSE [limiter EXCEPT ![key].count = @ + 1]

\* lottery.ts:315-320, the solvency override on the pool row read at line 300.
ReserveRequired(pool) == FloorDiv(pool.total_balance * pool.min_pool_reserve_bps, 10000)
AvailableForPayout(pool) == pool.total_balance - ReserveRequired(pool)
MaxSingleWin(pool) == FloorDiv(AvailableForPayout(pool) * pool.max_win_pct_bps, 10000)

\* lottery.ts:88-92: the largest win GET /pool reports
AvailablePool(pool) ==
    FloorDiv(pool.total_balance * (10000 - pool.min_pool_reserve_bps), 10000)

\* A faulty variant of MaxWin: the share taken of the whole balance, the
\* reserve left out.
MaxWinOfBalance(pool) == FloorDiv(pool.total_balance * pool.max_win_pct_bps, 10000)

MaxWin(pool) == FloorDiv(AvailablePool(pool) * pool.max_win_pct_bps, 10000)

\* A faulty variant of Payable: the comparison with maxSingleWin left out.
PayableReserveOnly(pool, refundAmount) ==
    ~(refundAmount > AvailableForPayout(pool))

Payable(pool, refundAmount) ==
    ~(refundAmount > AvailableForPayout(pool) \/ refundAmount > MaxSingleWin(pool))

RefundAmount(entry) == entry.invoice_amount + entry.premium_paid

\* A faulty variant of Decide: a draw equal to the win probability wins.
DecideInclusive(randomValue, entry, pool) ==
    LET won == randomValue <= entry.win_probability_bps
    IN IF won THEN Payable(pool, RefundAmount(entry)) ELSE FALSE

\* lottery.ts:311-324: the decision of a settle request
Decide(randomValue, entry, pool) ==
    LET won == randomValue < entry.win_probability_bps
    IN IF won THEN Payable(pool, RefundAmount(entry)) ELSE FALSE

\* A faulty variant of AlreadySettledResponse: won compared with the boolean true, which
\* the integer column never equals.
AlreadySettledResponseStrictBool(entryId, entry) ==
    [entryId |-> entryId, won |-> FALSE, randomValue |-> NullInt,
     status |-> entry.status, code |-> 200]

\* lottery.ts:276-291: the response for an entry that is no longer pending
AlreadySettledResponse(entryId, entry) ==
    [entryId |-> entryId, won |-> (entry.won = 1), randomValue |-> NullInt,
     status |-> entry.status, code |-> 200]

\* lottery.ts:372-388: the response of a request whose compare-and-swap lost
\* (the row is read again)
LostRaceResponse(entryId, randomValue, updated) ==
    [entryId |-> entryId, won |-> (updated.won = 1), randomValue |-> randomValue,
     status |-> updated.status, code |-> 200]

\* lottery.ts:414-431: the response of the request that ran the commit
FinalResponse(entryId, won, randomValue, refundTxSignature) ==
    [entryId |-> entryId, won |-> won, randomValue |-> randomValue,
     status |-> IF won THEN "won" ELSE "lost",
     code |-> IF won /\ refundTxSignature = NullText THEN 202 ELSE 200]

\* A faulty variant of ShouldDispatch: the refund sent whatever the outcome.
ShouldDispatchAlways(won) == TRUE

\* lottery.ts:396: the refund is dispatched only for a win
ShouldDispatch(won) == won

NowSeconds == FloorDiv(now, 1000)

----------------------------------------------------------------------------
(***************************************************************************)
(* The initial state: the store as db.ts leaves it at import (tables       *)
(* present, no pool, no entry), holding the pending invoices the invoice   *)
(* routes have inserted; no request in flight.                             *)
(***************************************************************************)
\* secureRandomInt has not been called yet.
NoSample == [pc |-> "idle", maxExclusive |-> NullInt, value |-> NullInt, result |-> NullInt]

\* GET /pool has not been asked yet.
NoQuote ==
    [pc |-> "idle", maxWin |-> NullInt, refundAmount |-> NullInt, payable |-> FALSE]

\* The pay page has not confirmed a payment yet.
NoFlow ==
    [pc |-> "idle", invoiceId |-> NullInt, txSignature |-> NullText,
     verified |-> "none", calls |-> FALSE]

\* No POST /entry call has been made yet.
NoCall ==
    [flip |-> FALSE, invoiceId |-> NullInt, wallet |-> NullInt,
     premium |-> NullInt, outcome |-> "none", code |-> 0]

PendingInvoice(amount) ==
    [status |-> "pending", amount |-> amount, token_mint |-> "USDC",
     paid_at |-> NullInt, tx_signature |-> NullText]

InitWith(n, amount) ==
    /\ invoices = [i \in 1..n |-> PendingInvoice(amount)]
    /\ pools = [m \in Mints |-> NoPool]
    /\ entries = <<>>
    /\ statusCheck \in {CurrentStatusCheck, LegacyStatusCheck}
    /\ rateLimiter = <<>>
    /\ now = Clock.start
    /\ frames = EmptyBag
    /\ responses = {}
    /\ started = 0
    /\ payoutCalls = <<>>
    /\ refundCalls = <<>>
    /\ entryFrames = EmptyBag
    /\ lastCall = NoCall
    /\ admitted = <<>>
    /\ supplied = <<>>
    /\ refunds = {}
    /\ sampler = NoSample
    /\ verifyFrames = EmptyBag
    /\ seeded = [m \in Mints |-> 0]
    /\ payFlow = NoFlow
    /\ quote = NoQuote

Init == InitWith(NumInvoices, SpecInput.amount)

\* lottery.ts:489-550, POST /pool/init with the admin key and a valid mint.
PoolInit(tokenMint, initialBalance) ==
    /\ pools[tokenMint] = NoPool
    /\ pools' = [pools EXCEPT ![tokenMint] =
                    IF initialBalance > 0
                    THEN AddPremium(NewPool, initialBalance, 0)
                    ELSE NewPool]
    /\ seeded' = [seeded EXCEPT ![tokenMint] =
                     IF initialBalance > 0 THEN initialBalance ELSE 0]
    /\ UNCHANGED <<invoices, entries, statusCheck, rateLimiter, now, frames,
                   responses, started, payoutCalls, refundCalls, entryVars,
                   supplied, refunds, sampler, verifyFrames, payFlow, quote>>

\* lottery.ts:201: getByInvoice.get returns the first row of the invoice.
\* 0 when there is none.
FirstEntryOf(invoiceId) ==
    LET rows == {e \in 1..Len(entries) : entries[e].invoice_id = invoiceId}
    IN IF rows = {} THEN 0 ELSE CHOOSE e \in rows : \A o \in rows : e <= o

\* lottery.ts:230-238 with db.ts:244-247: the inserted row.  The seventh
\* placeholder of the INSERT is on_chain_address, and the route binds
\* txSignature || null to it.
NewEntry(invoiceId, clientWallet, invoiceAmount, premiumAmount, bps, txSignature) ==
    [invoice_id |-> invoiceId,
     client_wallet |-> clientWallet,
     invoice_amount |-> invoiceAmount,
     premium_paid |-> premiumAmount,
     win_probability_bps |-> bps,
     status |-> "pending_vrf",
     won |-> NullInt,
     random_result |-> NullText,
     tx_signature |-> NullText,
     refund_tx_signature |-> NullText,
     on_chain_address |-> txSignature,
     resolved_at |-> NullInt]

\* lottery.ts:34-41: new PublicKey(address) accepts the address.  Wallets are
\* numbered; 0 stands for a malformed address.
IsValidPublicKey(address) == address >= 1

\* A faulty variant of EntryValidation: the premium's sign is not checked.
EntryValidationPremiumUnchecked(invoiceId, clientWallet, premiumAmount) ==
    IF invoiceId = NullInt \/ clientWallet = NullInt
          \/ premiumAmount = NullInt \/ premiumAmount = 0
    THEN "missing_fields"
    ELSE IF ~IsValidPublicKey(clientWallet) THEN "invalid_wallet"
    ELSE "ok"

\* lottery.ts:165-180: the validation of the request body.  NullInt is an
\* absent field; a premium of 0 is falsy and so counts as absent.
EntryValidation(invoiceId, clientWallet, premiumAmount) ==
    IF invoiceId = NullInt \/ clientWallet = NullInt
          \/ premiumAmount = NullInt \/ premiumAmount = 0
    THEN "missing_fields"
    ELSE IF ~IsValidPublicKey(clientWallet) THEN "invalid_wallet"
    ELSE IF premiumAmount <= 0 THEN "invalid_premium"
    ELSE "ok"

\* lottery.ts:188-205: the checks on the invoice and on its existing entry.
EntryAdmission(invoiceId) ==
    IF invoiceId \notin DOMAIN invoices THEN "not_found"
    ELSE IF invoices[invoiceId].status # "pending" THEN "not_pending"
    ELSE IF LET existing == FirstEntryOf(invoiceId)
            IN existing # 0 /\ entries[existing].status = "pending_vrf"
    THEN "entry_exists"
    ELSE "ok"

\* The HTTP status of each answer of POST /entry.
EntryCode(outcome) ==
    CASE outcome \in {"missing_fields", "invalid_wallet", "invalid_premium",
                      "not_pending", "entry_exists"} -> 400
      [] outcome = "throttled" -> 429
      [] outcome = "not_found" -> 404
      [] outcome = "created" -> 200
      [] OTHER -> 0

CallRecord(invoiceId, clientWallet, premiumAmount, outcome) ==
    [flip |-> ~lastCall.flip, invoiceId |-> invoiceId, wallet |-> clientWallet,
     premium |-> premiumAmount, outcome |-> outcome, code |-> EntryCode(outcome)]

\* lottery.ts:207-220: the pool of the invoice's currency, created if absent.
GetOrCreatePool(tokenMint) ==
    IF pools[tokenMint] = NoPool THEN NewPool ELSE pools[tokenMint]

\* lottery.ts:161-263, POST /entry handled without interleaving (one service
\* instance: the handler has no await).
CreateEntry(invoiceId, clientWallet, premiumAmount, riskSlider, txSignature) ==
    /\ LET validation == EntryValidation(invoiceId, clientWallet, premiumAmount)
       IN IF validation # "ok"
          THEN /\ lastCall' = CallRecord(invoiceId, clientWallet, premiumAmount, validation)
               /\ UNCHANGED <<storeVars, rateLimiter, admitted, payoutCalls,
                              refundCalls, supplied>>
          ELSE IF ~CheckRateLimit(rateLimiter, clientWallet, now)
          THEN /\ lastCall' = CallRecord(invoiceId, clientWallet, premiumAmount, "throttled")
               /\ UNCHANGED <<storeVars, rateLimiter, admitted, payoutCalls,
                              refundCalls, supplied>>
          ELSE /\ rateLimiter' = RateLimiterAfter(rateLimiter, clientWallet, now)
               /\ admitted' = Append(admitted, <<clientWallet, now>>)
               /\ IF EntryAdmission(invoiceId) # "ok"
                  THEN /\ lastCall' = CallRecord(invoiceId, clientWallet, premiumAmount, EntryAdmission(invoiceId))
                       /\ UNCHANGED <<storeVars, payoutCalls, refundCalls, supplied>>
                  ELSE LET invoice == invoices[invoiceId]
                           pool == GetOrCreatePool(invoice.token_mint)
                       IN /\ entries' = Append(entries,
                                  NewEntry(invoiceId, clientWallet, invoice.amount,
                                           premiumAmount, WinProbabilityBps(riskSlider),
                                           txSignature))
                          /\ pools' = [pools EXCEPT ![invoice.token_mint] =
                                          AddPremium(pool, premiumAmount, premiumAmount)]
                          /\ payoutCalls' = Append(payoutCalls, 0)
                          /\ refundCalls' = Append(refundCalls, 0)
                          /\ supplied' = Append(supplied, txSignature)
                          /\ lastCall' = CallRecord(invoiceId, clientWallet, premiumAmount, "created")
                          /\ UNCHANGED <<invoices, statusCheck>>
    /\ UNCHANGED <<now, frames, responses, started, entryFrames, refunds, sideVars>>

\* lottery.ts:161-225, POST /entry up to its transaction, as it runs on one of
\* several service instances sharing the store: validation, rate limit, the
\* reads of the invoice and of its entry, the pool created if absent and the
\* win probability.  The handler's locals are kept in a frame.
EntryBegin(invoiceId, clientWallet, premiumAmount, riskSlider, txSignature) ==
    /\ LET validation == EntryValidation(invoiceId, clientWallet, premiumAmount)
       IN IF validation # "ok"
          THEN /\ lastCall' = CallRecord(invoiceId, clientWallet, premiumAmount, validation)
               /\ UNCHANGED <<pools, rateLimiter, admitted, entryFrames>>
          ELSE IF ~CheckRateLimit(rateLimiter, clientWallet, now)
          THEN /\ lastCall' = CallRecord(invoiceId, clientWallet, premiumAmount, "throttled")
               /\ UNCHANGED <<pools, rateLimiter, admitted, entryFrames>>
          ELSE /\ rateLimiter' = RateLimiterAfter(rateLimiter, clientWallet, now)
               /\ admitted' = Append(admitted, <<clientWallet, now>>)
               /\ IF EntryAdmission(invoiceId) # "ok"
                  THEN /\ lastCall' = CallRecord(invoiceId, clientWallet, premiumAmount, EntryAdmission(invoiceId))
                       /\ UNCHANGED <<pools, entryFrames>>
                  ELSE LET invoice == invoices[invoiceId]
                       IN /\ pools' = [pools EXCEPT ![invoice.token_mint] =
                                          GetOrCreatePool(invoice.token_mint)]
                          /\ entryFrames' = entryFrames (+) SetToBag({
                                 [invoiceId |-> invoiceId,
                                  clientWallet |-> clientWallet,
                                  amount |-> invoice.amount,
                                  token_mint |-> invoice.token_mint,
                                  premiumAmount |-> premiumAmount,
                                  riskSlider |-> riskSlider,
                                  winProbabilityBps |-> WinProbabilityBps(riskSlider),
                                  txSignature |-> txSignature]})
                          /\ lastCall' = CallRecord(invoiceId, clientWallet, premiumAmount, "accepted")
    /\ UNCHANGED <<invoices, entries, statusCheck, now, frames, responses, started,
                   payoutCalls, refundCalls, supplied, refunds, sideVars>>

\* lottery.ts:227-258, createEntryTx: the entry inserted and the pool credited
\* in one transaction.
EntryCommit(f) ==
    /\ BagIn(f, entryFrames)
    /\ entries' = Append(entries,
                     NewEntry(f.invoiceId, f.clientWallet, f.amount, f.premiumAmount,
                              f.winProbabilityBps, f.txSignature))
    /\ pools' = [pools EXCEPT ![f.token_mint] =
                    AddPremium(@, f.premiumAmount, f.premiumAmount)]
    /\ payoutCalls' = Append(payoutCalls, 0)
    /\ refundCalls' = Append(refundCalls, 0)
    /\ supplied' = Append(supplied, f.txSignature)
    /\ entryFrames' = entryFrames (-) SetToBag({f})
    /\ UNCHANGED <<invoices, statusCheck, rateLimiter, now, frames, responses,
                   started, lastCall, admitted, refunds, sideVars>>

\* db.ts:79: lottery_pools.paused.  No route writes the column; an operator
\* sets it in the store.
PausePool(tokenMint) ==
    /\ pools[tokenMint] # NoPool
    /\ pools[tokenMint].paused = 0
    /\ pools' = [pools EXCEPT ![tokenMint].paused = 1]
    /\ UNCHANGED <<invoices, entries, statusCheck, rateLimiter, now, frames,
                   responses, started, payoutCalls, refundCalls, entryVars,
                   supplied, refunds, sideVars>>

\* lottery.ts:61-116, GET /pool/:tokenMint: the fields of the answer that say
\* whether the lottery is open for the currency.
PoolSnapshot(tokenMint) ==
    LET pool == pools[tokenMint]
    IN IF pool = NoPool
       THEN [exists |-> FALSE, totalBalance |-> 0, paused |-> TRUE,
             lotteryAvailable |-> FALSE, threshold |-> MIN_POOL_THRESHOLD]
       ELSE [exists |-> TRUE, totalBalance |-> pool.total_balance,
             maxWin |-> MaxWin(pool),
             paused |-> pool.paused # 0,
             lotteryAvailable |-> pool.total_balance >= MIN_POOL_THRESHOLD
                                     /\ pool.paused = 0,
             threshold |-> MIN_POOL_THRESHOLD]

\* Date.now() advances.
Tick ==
    /\ now < Clock.last
    /\ now' = now + Clock.tick
    /\ UNCHANGED <<storeVars, rateLimiter, frames, responses, started, payoutCalls,
                   refundCalls, entryVars, supplied, refunds, sideVars>>

\* The pool of an entry's invoice (lottery.ts:294-300).
PoolOf(entry) == pools[invoices[entry.invoice_id].token_mint]

\* lottery.ts:268-328, POST /settle/:entryId up to the transaction: the
\* idempotency check, the reads, the draw and the decision.  The handler's
\* locals are kept in a frame; the columns of `entry` it uses later
\* (invoice_id, invoice_amount, premium_paid, client_wallet) never change
\* after the insert and are read from the table.
SettleBegin(entryId, randomValue, randomHex) ==
    /\ entryId \in 1..Len(entries)
    /\ randomValue \in 0..(RANDOM_RANGE - 1)
    /\ started' = started + 1
    /\ LET entry == entries[entryId]
           pool == PoolOf(entry)
       IN IF entry.status # "pending_vrf"
          THEN /\ responses' = responses \cup {AlreadySettledResponse(entryId, entry)}
               /\ UNCHANGED frames
          ELSE /\ pool # NoPool
               /\ frames' = frames (+) SetToBag({
                      [pc |-> "commit",
                       entryId |-> entryId,
                       randomValue |-> randomValue,
                       won |-> Decide(randomValue, entry, pool),
                       pool |-> [total_balance |-> pool.total_balance,
                                 min_pool_reserve_bps |-> pool.min_pool_reserve_bps,
                                 max_win_pct_bps |-> pool.max_win_pct_bps],
                       randomHex |-> randomHex,
                       now |-> NowSeconds,
                       txSig |-> entry.tx_signature]})
               /\ UNCHANGED responses
    /\ UNCHANGED <<storeVars, rateLimiter, now, payoutCalls, refundCalls, entryVars,
                   supplied, refunds, sideVars>>

\* lottery.ts:330-368: what settleTransaction leaves in the store, and its
\* result ("false", "forced_loss" or "true").
SettleTransaction(f) ==
    LET entry == entries[f.entryId]
        invoiceId == entry.invoice_id
        mint == invoices[invoiceId].token_mint
        settled == SettleRun(entry, IF f.won THEN "won" ELSE "lost",
                             IF f.won THEN 1 ELSE 0, f.randomHex, f.now, f.txSig)
        refundAmount == RefundAmount(entry)
        paidInvoices == [invoices EXCEPT ![invoiceId] =
                            UpdateInvoiceStatus(@, "paid", f.now, f.txSig)]
    IN IF SettleChanges(entry) = 0
       THEN [result |-> "false", entries |-> entries, pools |-> pools,
             invoices |-> invoices, payouts |-> 0]
       ELSE IF f.won /\ AddPayoutChanges(pools[mint], refundAmount) = 0
       THEN [result |-> "forced_loss",
             entries |-> [entries EXCEPT ![f.entryId] =
                            SettleRun(settled, "lost", 0, f.randomHex, f.now, f.txSig)],
             pools |-> pools, invoices |-> invoices, payouts |-> 0]
       ELSE IF f.won
       THEN [result |-> "true",
             entries |-> [entries EXCEPT ![f.entryId] = settled],
             pools |-> [pools EXCEPT ![mint] = AddPayout(@, refundAmount)],
             invoices |-> paidInvoices, payouts |-> 1]
       ELSE [result |-> "true",
             entries |-> [entries EXCEPT ![f.entryId] = settled],
             pools |-> pools, invoices |-> paidInvoices, payouts |-> 0]

\* lottery.ts:330-397: the transaction commits, and the handler answers or
\* goes on to send the refund.
SettleCommit(f) ==
    /\ BagIn(f, frames)
    /\ f.pc = "commit"
    /\ LET tx == SettleTransaction(f)
           won == IF tx.result = "forced_loss" THEN FALSE ELSE f.won
       IN /\ entries' = tx.entries
          /\ pools' = tx.pools
          /\ invoices' = tx.invoices
          /\ payoutCalls' = [payoutCalls EXCEPT ![f.entryId] = @ + tx.payouts]
          /\ IF tx.result = "false"
             THEN /\ frames' = frames (-) SetToBag({f})
                  /\ responses' = responses \cup
                        {LostRaceResponse(f.entryId, f.randomValue,
                                          tx.entries[f.entryId])}
             ELSE IF ShouldDispatch(won)
             THEN /\ frames' = (frames (-) SetToBag({f}))
                                  (+) SetToBag({[f EXCEPT !.pc = "refund", !.won = won]})
                  /\ UNCHANGED responses
             ELSE /\ frames' = frames (-) SetToBag({f})
                  /\ responses' = responses \cup
                        {FinalResponse(f.entryId, won, f.randomValue, NullText)}
    /\ UNCHANGED <<statusCheck, rateLimiter, now, started, refundCalls, entryVars,
                   supplied, refunds, sideVars>>

\* A faulty variant of SendRefundArgs: the premium is left out of the amount.
SendRefundArgsStakeOnly(f) ==
    LET entry == entries[f.entryId]
    IN [entryId |-> f.entryId, toWallet |-> entry.client_wallet,
        amount |-> entry.invoice_amount,
        tokenMint |-> invoices[entry.invoice_id].token_mint]

\* lottery.ts:397-398: the arguments sendRefund is called with, taken from the
\* handler's `entry` and `invoice` (columns that never change after the insert).
SendRefundArgs(f) ==
    LET entry == entries[f.entryId]
    IN [entryId |-> f.entryId, toWallet |-> entry.client_wallet,
        amount |-> RefundAmount(entry),
        tokenMint |-> invoices[entry.invoice_id].token_mint]

\* lottery.ts:397-401 and 414-431: sendRefund returns a signature.
RefundOk(f, refundTxSignature) ==
    /\ BagIn(f, frames)
    /\ f.pc = "refund"
    /\ refundCalls' = [refundCalls EXCEPT ![f.entryId] = @ + 1]
    /\ refunds' = refunds \cup {SendRefundArgs(f)}
    /\ entries' = [entries EXCEPT ![f.entryId] = UpdateRefundTx(@, refundTxSignature)]
    /\ frames' = frames (-) SetToBag({f})
    /\ responses' = responses \cup {FinalResponse(f.entryId, f.won, f.randomValue,
                                               refundTxSignature)}
    /\ UNCHANGED <<invoices, pools, statusCheck, rateLimiter, now, started,
                   payoutCalls, entryVars, supplied, sideVars>>

\* lottery.ts:397-431: sendRefund throws.
RefundFail(f) ==
    /\ BagIn(f, frames)
    /\ f.pc = "refund"
    /\ refundCalls' = [refundCalls EXCEPT ![f.entryId] = @ + 1]
    /\ refunds' = refunds \cup {SendRefundArgs(f)}
    /\ entries' = [entries EXCEPT ![f.entryId] =
                      UpdateEntryStatus(@, "refund_failed", statusCheck)]
    /\ frames' = frames (-) SetToBag({f})
    /\ responses' = responses \cup {FinalResponse(f.entryId, f.won, f.randomValue,
                                               NullText)}
    /\ UNCHANGED <<invoices, pools, statusCheck, rateLimiter, now, started,
                   payoutCalls, entryVars, supplied, sideVars>>

----------------------------------------------------------------------------
(***************************************************************************)
(* Spec: the small store under every interleaving of pool seeding, entry   *)
(* creation and settle requests.  POST /entry is issued for invoices that  *)
(* can take an entry; a call the handler turns down after the rate limiter *)
(* changes nothing but the limiter's counter.  The clock stands still: the *)
(* settlement protocol reads it only to stamp resolved_at and paid_at.     *)
(***************************************************************************)
Next ==
    \/ \E b \in InitialBalances : PoolInit("USDC", b)
    \/ \E i \in DOMAIN invoices, p \in Premiums, s \in RiskSliders,
          t \in TxSignatures :
          /\ invoices[i].status = "pending" /\ FirstEntryOf(i) = 0
          /\ CreateEntry(i, SpecInput.wallet, p, s, t)
    \/ /\ started < MaxRequests
       /\ \E e \in 1..Len(entries), r \in Draws, h \in RandomHexes :
             SettleBegin(e, r, h)
    \/ \E f \in BagToSet(frames) : SettleCommit(f)
    \/ \E f \in BagToSet(frames), g \in RefundSignatures : RefundOk(f, g)
    \/ \E f \in BagToSet(frames) : RefundFail(f)

Spec == Init /\ [][Next]_vars

----------------------------------------------------------------------------
(***************************************************************************)
(* SpecRace: the race the balance guard of addPayout is there for.  With   *)
(* the pool parameters the routes create pools with, a win is payable only *)
(* up to 8% of the balance read, so the guard can refuse a debit only when *)
(* at least thirteen settlements have read the pool before the first of   *)
(* them commits.  The entries are alike, so the schedule creates them in   *)
(* the order of their ids, then begins one settlement for each in that     *)
(* order, then commits them in that order, a refund finishing before the   *)
(* next commit; every step is a step of the actions above.                 *)
(***************************************************************************)
RaceInit == InitWith(RaceEntries, Race.amount)

Decided == {e \in 1..Len(entries) : entries[e].status # "pending_vrf"}

RaceNext ==
    \/ \E b \in {Race.seed, Race.drainSeed} : PoolInit("USDC", b)
    \/ \E i \in DOMAIN invoices :
          /\ i = Len(entries) + 1
          /\ CreateEntry(i, i, Race.premium, Race.slider, "paysig")
    \/ \E e \in 1..Len(entries), h \in RandomHexes :
          /\ Len(entries) = RaceEntries
          /\ e = started + 1
          /\ SettleBegin(e, Race.draw, h)
    \/ \E f \in BagToSet(frames) :
          /\ started = RaceEntries
          /\ f.entryId = Cardinality(Decided) + 1
          /\ \A g \in BagToSet(frames) : g.pc # "refund"
          /\ SettleCommit(f)
    \/ \E f \in BagToSet(frames), g \in RefundSignatures : RefundOk(f, g)
    \/ \E f \in BagToSet(frames) : RefundFail(f)

SpecRace == RaceInit /\ [][RaceNext]_vars

\* Both stores together: the small store under every interleaving and the
\* thirteen-invoice store along the race schedule.
IsRaceStore == Cardinality(DOMAIN invoices) = RaceEntries

AllInit == Init \/ RaceInit

AllNext ==
    \/ ~IsRaceStore /\ Next
    \/ IsRaceStore /\ RaceNext

SpecAll == AllInit /\ [][AllNext]_vars

----------------------------------------------------------------------------
(***************************************************************************)
(* SpecEntry: POST /entry on several service instances sharing the store:  *)
(* the handlers interleave between their reads (EntryBegin) and their      *)
(* transaction (EntryCommit).  The rate limiter is the Map of one process; *)
(* it is taken here as one Map for all the calls, the most the limiter can *)
(* do.  The clock stands still and the requests are well formed, with      *)
(* every kind of risk level.                                               *)
(***************************************************************************)
EntryInit == InitWith(EntryInvoices, SpecInput.amount)

EntryNext ==
    \/ \E b \in InitialBalances : PoolInit("USDC", b)
    \/ /\ BagCardinality(entryFrames) < MaxEntryFrames
       /\ \E i \in DOMAIN invoices, p \in Premiums, s \in EntrySliders,
             t \in TxSignatures : EntryBegin(i, SpecInput.wallet, p, s, t)
    \/ \E f \in BagToSet(entryFrames) : EntryCommit(f)
    \/ PausePool("USDC")

SpecEntry == EntryInit /\ [][EntryNext]_vars

\* The entry store with its interleaved POST /entry handlers together with the
\* small store of Spec, where the entries created go on to be settled.
IsEntryStore == Cardinality(DOMAIN invoices) = EntryInvoices

LifecycleInit == EntryInit \/ Init

LifecycleNext ==
    \/ IsEntryStore /\ EntryNext
    \/ ~IsEntryStore /\ Next

SpecLifecycle == LifecycleInit /\ [][LifecycleNext]_vars

----------------------------------------------------------------------------
(***************************************************************************)
(* SpecLimiter: POST /entry on one service instance while the clock        *)
(* advances, with well-formed and malformed requests.                      *)
(***************************************************************************)
LimiterNext ==
    \/ \E i \in DOMAIN invoices \cup {NullInt, EntryInput.unknownInvoice},
          w \in EntryWallets, p \in EntryPremiums, s \in RiskSliders,
          t \in TxSignatures : CreateEntry(i, w, p, s, t)
    \/ Tick

SpecLimiter == EntryInit /\ [][LimiterNext]_vars

----------------------------------------------------------------------------
(***************************************************************************)
(* SpecShared: the store of SpecEntry, where the interleaved POST /entry   *)
(* handlers can leave two entries on one invoice, with the settle requests *)
(* of Spec for the entries created.                                        *)
(***************************************************************************)
SharedNext ==
    \/ EntryNext
    \/ /\ started < MaxRequests
       /\ \E e \in 1..Len(entries), r \in Draws, h \in RandomHexes :
             SettleBegin(e, r, h)
    \/ \E f \in BagToSet(frames) : SettleCommit(f)
    \/ \E f \in BagToSet(frames), g \in RefundSignatures : RefundOk(f, g)
    \/ \E f \in BagToSet(frames) : RefundFail(f)

SpecShared == EntryInit /\ [][SharedNext]_vars

----------------------------------------------------------------------------
(***************************************************************************)
(* SpecPayment: the routes that mark an invoice paid outside the lottery   *)
(* (POST /verify-payment, the Helius webhook, the admin's PATCH of the     *)
(* status), with POST /entry on one service instance for known and unknown *)
(* invoices, from a valid wallet and from a malformed one (0).  The admin  *)
(* sends no txSignature.  The clock stands still.                          *)
(***************************************************************************)
\* part_005:96-127, POST /verify-payment up to the await of verifyPayment.
\* An unknown invoice is answered 404, an invoice already paid or already
\* carrying this signature is answered without a change.
VerifyBegin(invoiceId, txSignature) ==
    /\ invoiceId \in DOMAIN invoices
    /\ invoices[invoiceId].status # "paid"
    /\ invoices[invoiceId].tx_signature # txSignature
    /\ verifyFrames' = verifyFrames (+) SetToBag({
           [invoiceId |-> invoiceId, txSignature |-> txSignature,
            verified |-> "awaiting", page |-> FALSE]})
    /\ UNCHANGED <<storeVars, rateLimiter, now, frames, responses, started,
                   payoutCalls, refundCalls, entryVars, supplied, refunds, sampler,
                   seeded, payFlow, quote>>

\* part_005:129-134: the promise of verifyPayment resolves.
VerifyResolve(f, verified) ==
    /\ BagIn(f, verifyFrames)
    /\ f.verified = "awaiting"
    /\ verifyFrames' = (verifyFrames (-) SetToBag({f}))
                           (+) SetToBag({[f EXCEPT !.verified =
                                            IF verified THEN "yes" ELSE "no"]})
    /\ UNCHANGED <<storeVars, rateLimiter, now, frames, responses, started,
                   payoutCalls, refundCalls, entryVars, supplied, refunds, sampler,
                   seeded, payFlow, quote>>

\* part_005:136-161: the handler resumes; a failed verification is answered
\* 400, a verified payment marks the invoice paid.  The answer to a request
\* of the pay page lets the page go on ([id].tsx:602-610: the page awaits the
\* fetch and does not look at the answer).
VerifyFinish(f) ==
    /\ BagIn(f, verifyFrames)
    /\ f.verified # "awaiting"
    /\ verifyFrames' = verifyFrames (-) SetToBag({f})
    /\ invoices' = IF f.verified = "yes"
                   THEN [invoices EXCEPT ![f.invoiceId] =
                           UpdateInvoiceStatus(@, "paid", NowSeconds, f.txSignature)]
                   ELSE invoices
    /\ payFlow' = IF f.page
                  THEN [payFlow EXCEPT !.pc = "entry", !.verified = f.verified,
                                       !.calls = lastCall.flip]
                  ELSE payFlow
    /\ UNCHANGED <<pools, entries, statusCheck, rateLimiter, now, frames, responses,
                   started, payoutCalls, refundCalls, entryVars, supplied, refunds,
                   sampler, seeded, quote>>

\* part_005:64-92, checkPayment for a transfer to the creator's wallet: the
\* first pending invoice, in the order of due dates, of that currency and of
\* an amount the transfer covers is marked paid.  The due dates are not
\* modelled: any such invoice can be the first.
CheckPayment(amount, signature, mint) ==
    /\ \E i \in DOMAIN invoices :
          /\ invoices[i].status = "pending"
          /\ invoices[i].token_mint = mint
          /\ invoices[i].amount <= amount
          /\ invoices' = [invoices EXCEPT ![i] =
                             UpdateInvoiceStatus(@, "paid", NowSeconds, signature)]
    /\ UNCHANGED <<pools, entries, statusCheck, rateLimiter, now, frames, responses,
                   started, payoutCalls, refundCalls, entryVars, supplied, refunds,
                   sideVars>>

\* email.ts:1600-1633, PATCH /:id/status with the admin key.
PatchStatus(id, status, txSignature) ==
    /\ status \in ValidStatuses
    /\ id \in DOMAIN invoices
    /\ invoices' = [invoices EXCEPT ![id] =
                       UpdateInvoiceStatus(@, status,
                           IF status = "paid" THEN NowSeconds ELSE NullInt,
                           txSignature)]
    /\ UNCHANGED <<pools, entries, statusCheck, rateLimiter, now, frames, responses,
                   started, payoutCalls, refundCalls, entryVars, supplied, refunds,
                   sideVars>>

PaymentNext ==
    \/ \E i \in DOMAIN invoices \cup {EntryInput.unknownInvoice},
          w \in {0, SpecInput.wallet}, p \in Premiums, s \in RiskSliders,
          t \in TxSignatures : CreateEntry(i, w, p, s, t)
    \/ /\ BagCardinality(verifyFrames) < MaxVerifyFrames
       /\ \E i \in DOMAIN invoices, t \in TxSignatures : VerifyBegin(i, t)
    \/ \E f \in BagToSet(verifyFrames), v \in BOOLEAN : VerifyResolve(f, v)
    \/ \E f \in BagToSet(verifyFrames) : VerifyFinish(f)
    \/ \E a \in TransferAmounts, t \in TxSignatures, m \in Mints :
          CheckPayment(a, t, m)
    \/ \E i \in DOMAIN invoices, st \in ValidStatuses : PatchStatus(i, st, NullText)

SpecPayment == EntryInit /\ [][PaymentNext]_vars

----------------------------------------------------------------------------
(***************************************************************************)
(* SpecLive: the store of SpecEntry with the settle handler's draw loop    *)
(* spelled out.  A request first reads the entry, the invoice and the pool *)
(* (SettleRequest), then passes through the do-while loop of               *)
(* secureRandomInt (SettleDraw: crypto.randomBytes returns a sample the    *)
(* loop rejects, or one it accepts and reduces to the draw), then runs its *)
(* transaction and its refund as in Spec.  Fairness: a handler that can    *)
(* run its transaction does so (each process runs its handler to the end), *)
(* and the loop is not handed rejected samples for ever (a sample is       *)
(* rejected with probability 7296 / 2^32).                                 *)
(***************************************************************************)
\* lottery.ts:268-304, POST /settle/:entryId up to the draw: the idempotency
\* check and the reads.
SettleRequest(entryId, randomHex) ==
    /\ entryId \in 1..Len(entries)
    /\ started' = started + 1
    /\ LET entry == entries[entryId]
           pool == PoolOf(entry)
       IN IF entry.status # "pending_vrf"
          THEN /\ responses' = responses \cup {AlreadySettledResponse(entryId, entry)}
               /\ UNCHANGED frames
          ELSE /\ pool # NoPool
               /\ frames' = frames (+) SetToBag({
                      [pc |-> "draw",
                       entryId |-> entryId,
                       randomValue |-> NullInt,
                       won |-> FALSE,
                       pool |-> [total_balance |-> pool.total_balance,
                                 min_pool_reserve_bps |-> pool.min_pool_reserve_bps,
                                 max_win_pct_bps |-> pool.max_win_pct_bps],
                       randomHex |-> randomHex,
                       now |-> NowSeconds,
                       txSig |-> entry.tx_signature,
                       retried |-> FALSE]})
               /\ UNCHANGED responses
    /\ UNCHANGED <<storeVars, rateLimiter, now, payoutCalls, refundCalls, entryVars,
                   supplied, refunds, sideVars>>

\* A faulty variant of DrawPass: the loop never accepts a sample.
DrawPassNeverAccepts(f, accepted, randomValue) ==
    [f EXCEPT !.retried = TRUE]

\* lottery.ts:48-52 and 307-327: one pass of the loop of secureRandomInt in
\* the handler of frame f.  A rejected sample leaves the handler in the loop;
\* an accepted one gives the draw, and the handler decides and reaches its
\* transaction.
DrawPass(f, accepted, randomValue) ==
    IF ~accepted THEN [f EXCEPT !.retried = TRUE]
    ELSE [pc |-> "commit",
          entryId |-> f.entryId,
          randomValue |-> randomValue,
          won |-> Decide(randomValue, entries[f.entryId], f.pool),
          pool |-> f.pool,
          randomHex |-> f.randomHex,
          now |-> f.now,
          txSig |-> f.txSig]

SettleDraw(f, accepted, randomValue) ==
    /\ BagIn(f, frames)
    /\ f.pc = "draw"
    /\ randomValue \in 0..(RANDOM_RANGE - 1)
    /\ frames' = (frames (-) SetToBag({f}))
                     (+) SetToBag({DrawPass(f, accepted, randomValue)})
    /\ UNCHANGED <<storeVars, rateLimiter, now, responses, started, payoutCalls,
                   refundCalls, entryVars, supplied, refunds, sideVars>>

LiveNext ==
    \/ \E b \in InitialBalances : PoolInit("USDC", b)
    \/ \E i \in DOMAIN invoices, p \in Premiums, s \in RiskSliders,
          t \in TxSignatures :
          /\ invoices[i].status = "pending" /\ FirstEntryOf(i) = 0
          /\ CreateEntry(i, SpecInput.wallet, p, s, t)
    \/ /\ started < MaxRequests
       /\ \E e \in 1..Len(entries), h \in RandomHexes : SettleRequest(e, h)
    \/ \E f \in BagToSet(frames), r \in Draws : SettleDraw(f, FALSE, r)
    \/ \E f \in BagToSet(frames), r \in Draws : SettleDraw(f, TRUE, r)
    \/ \E f \in BagToSet(frames) : SettleCommit(f)
    \/ \E f \in BagToSet(frames), g \in RefundSignatures : RefundOk(f, g)
    \/ \E f \in BagToSet(frames) : RefundFail(f)

SpecLive ==
    /\ EntryInit /\ [][LiveNext]_vars
    /\ WF_vars(\E f \in BagToSet(frames), r \in Draws : SettleDraw(f, TRUE, r))
    /\ WF_vars(\E f \in BagToSet(frames) : SettleCommit(f))

----------------------------------------------------------------------------
(***************************************************************************)
(* SpecPay: the wager flow of the pay page for one invoice, after the      *)
(* payment was confirmed on chain: POST /verify-payment, POST /entry,      *)
(* POST /settle, each awaited before the next.  The webhook may report the *)
(* same transfer at any time.                                              *)
(***************************************************************************)
\* [id].tsx:597-610 with part_005:96-127: the page posts the payment's
\* signature to /verify-payment.  An invoice already paid, or already
\* carrying the signature, is answered at once.
PayVerify(invoiceId, txSignature) ==
    /\ payFlow.pc = "idle"
    /\ invoiceId \in DOMAIN invoices
    /\ IF invoices[invoiceId].status = "paid"
             \/ invoices[invoiceId].tx_signature = txSignature
       THEN /\ payFlow' = [pc |-> "entry", invoiceId |-> invoiceId,
                           txSignature |-> txSignature, verified |-> "already",
                           calls |-> lastCall.flip]
            /\ UNCHANGED verifyFrames
       ELSE /\ payFlow' = [pc |-> "verifying", invoiceId |-> invoiceId,
                           txSignature |-> txSignature, verified |-> "none",
                           calls |-> lastCall.flip]
            /\ verifyFrames' = verifyFrames (+) SetToBag({
                   [invoiceId |-> invoiceId, txSignature |-> txSignature,
                    verified |-> "awaiting", page |-> TRUE]})
    /\ UNCHANGED <<storeVars, rateLimiter, now, frames, responses, started,
                   payoutCalls, refundCalls, entryVars, supplied, refunds, sampler,
                   seeded, quote>>

\* Where the page is once /verify-payment has answered: about to call
\* POST /entry, or past that call, with the entry created ([id].tsx:622) or
\* with createLotteryEntry having thrown (api.ts:271-274).
PageAt ==
    IF payFlow.pc # "entry" THEN payFlow.pc
    ELSE IF lastCall.flip = payFlow.calls THEN "entry"
    ELSE IF lastCall.outcome = "created" THEN "settle"
    ELSE "failed"

\* [id].tsx:612-619: createLotteryEntry for the invoice, with the payment's
\* signature.
PayEntry(clientWallet, premiumAmount, riskSlider) ==
    /\ PageAt = "entry"
    /\ CreateEntry(payFlow.invoiceId, clientWallet, premiumAmount, riskSlider,
                   payFlow.txSignature)

\* [id].tsx:621-623: settleLottery(entry.id) for the entry just created.
PaySettle(randomValue, randomHex) ==
    /\ PageAt = "settle"
    /\ started = 0
    /\ SettleBegin(Len(entries), randomValue, randomHex)

PayNext ==
    \/ \E b \in InitialBalances : PoolInit("USDC", b)
    \/ \E i \in DOMAIN invoices, t \in TxSignatures : PayVerify(i, t)
    \/ \E f \in BagToSet(verifyFrames), v \in BOOLEAN : VerifyResolve(f, v)
    \/ \E f \in BagToSet(verifyFrames) : VerifyFinish(f)
    \/ \E t \in TxSignatures, m \in Mints : CheckPayment(SpecInput.amount, t, m)
    \/ \E p \in Premiums, s \in RiskSliders : PayEntry(SpecInput.wallet, p, s)
    \/ \E r \in Draws, h \in RandomHexes : PaySettle(r, h)
    \/ \E f \in BagToSet(frames) : SettleCommit(f)
    \/ \E f \in BagToSet(frames), g \in RefundSignatures : RefundOk(f, g)
    \/ \E f \in BagToSet(frames) : RefundFail(f)
    \/ Tick

SpecPay == EntryInit /\ [][PayNext]_vars

----------------------------------------------------------------------------
(***************************************************************************)
(* SpecQuote: the two ceilings on a win, computed on the same pool row:    *)
(* the maxWin of GET /pool and the governor's check in POST /settle.  The  *)
(* row's balance and its two basis-point columns (db.ts:77-78) are drawn.  *)
(***************************************************************************)
QuoteBalances == 0..MaxQuoteBalance
QuoteBps == {0, 1, DEFAULT_MAX_WIN_BPS, DEFAULT_MIN_RESERVE_BPS, 3333, 9999, 10000}
QuoteRefunds == 1..MaxQuoteRefund

\* A pool row of the lottery_pools table (db.ts:68-84).
PoolRow(balance, minReserveBps, maxWinPctBps) ==
    [NewPool EXCEPT !.total_balance = balance,
                    !.total_premiums_collected = balance,
                    !.min_pool_reserve_bps = minReserveBps,
                    !.max_win_pct_bps = maxWinPctBps]

QuoteInit ==
    /\ invoices = [i \in 1..EntryInvoices |-> PendingInvoice(SpecInput.amount)]
    /\ \E b \in QuoteBalances, r \in QuoteBps, w \in QuoteBps :
          pools = [m \in Mints |-> IF m = "USDC" THEN PoolRow(b, r, w) ELSE NoPool]
    /\ entries = <<>>
    /\ statusCheck = CurrentStatusCheck
    /\ rateLimiter = <<>>
    /\ now = Clock.start
    /\ frames = EmptyBag
    /\ responses = {}
    /\ started = 0
    /\ payoutCalls = <<>>
    /\ refundCalls = <<>>
    /\ entryFrames = EmptyBag
    /\ lastCall = NoCall
    /\ admitted = <<>>
    /\ supplied = <<>>
    /\ refunds = {}
    /\ sampler = NoSample
    /\ verifyFrames = EmptyBag
    /\ seeded = [m \in Mints |-> 0]
    /\ payFlow = NoFlow
    /\ quote = NoQuote

\* lottery.ts:61-116: GET /pool/:tokenMint of an existing pool reports maxWin.
GetPool(tokenMint) ==
    /\ quote.pc = "idle"
    /\ pools[tokenMint] # NoPool
    /\ quote' = [quote EXCEPT !.pc = "quoted",
                              !.maxWin = PoolSnapshot(tokenMint).maxWin]
    /\ UNCHANGED <<storeVars, rateLimiter, now, frames, responses, started,
                   payoutCalls, refundCalls, entryVars, supplied, refunds, sampler,
                   verifyFrames, seeded, payFlow>>

\* lottery.ts:313-323: the governor's answer to a winning draw for a refund
\* of refundAmount.
SolvencyGovernor(tokenMint, refundAmount) ==
    /\ quote.pc = "quoted"
    /\ quote' = [quote EXCEPT !.pc = "judged",
                              !.refundAmount = refundAmount,
                              !.payable = Payable(pools[tokenMint], refundAmount)]
    /\ UNCHANGED <<storeVars, rateLimiter, now, frames, responses, started,
                   payoutCalls, refundCalls, entryVars, supplied, refunds, sampler,
                   verifyFrames, seeded, payFlow>>

QuoteNext ==
    \/ GetPool("USDC")
    \/ \E a \in QuoteRefunds : SolvencyGovernor("USDC", a)

SpecQuote == QuoteInit /\ [][QuoteNext]_vars

----------------------------------------------------------------------------
(***************************************************************************)
(* SpecRandom: secureRandomInt called with each range, crypto.randomBytes  *)
(* returning every raw sample.                                             *)
(***************************************************************************)
\* A faulty variant of MaxValid: every raw sample is accepted.
MaxValidAll(maxExclusive) == SampleMax + 1

\* lottery.ts:46: Math.floor(0xFFFFFFFF / maxExclusive) * maxExclusive.
MaxValid(maxExclusive) == FloorDiv(SampleMax, maxExclusive) * maxExclusive

\* lottery.ts:48-52: one pass of the do-while loop on the raw sample `value`,
\* and the return when the loop ends.
SamplePass(maxExclusive, value) ==
    IF value >= MaxValid(maxExclusive)
    THEN [pc |-> "rejected", maxExclusive |-> maxExclusive, value |-> value,
          result |-> NullInt]
    ELSE [pc |-> "returned", maxExclusive |-> maxExclusive, value |-> value,
          result |-> value % maxExclusive]

\* lottery.ts:44-50: secureRandomInt is called and reads its first sample.
SecureRandomInt(maxExclusive, value) ==
    /\ sampler.pc # "rejected"
    /\ sampler' = SamplePass(maxExclusive, value)
    /\ UNCHANGED <<storeVars, rateLimiter, now, frames, responses, started,
                   payoutCalls, refundCalls, entryVars, supplied, refunds,
                   verifyFrames, seeded, payFlow, quote>>

\* lottery.ts:48-52: the sample was rejected and the loop reads another.
SecureRandomIntRetry(value) ==
    /\ sampler.pc = "rejected"
    /\ sampler' = SamplePass(sampler.maxExclusive, value)
    /\ UNCHANGED <<storeVars, rateLimiter, now, frames, responses, started,
                   payoutCalls, refundCalls, entryVars, supplied, refunds,
                   verifyFrames, seeded, payFlow, quote>>

RandomNext ==
    \/ \E m \in SampleRanges, v \in 0..SampleMax : SecureRandomInt(m, v)
    \/ \E v \in 0..SampleMax : SecureRandomIntRetry(v)

SpecRandom == EntryInit /\ [][RandomNext]_vars

----------------------------------------------------------------------------
(***************************************************************************)
(* Properties.                                                             *)
(***************************************************************************)
EntryIds == 1..Len(entries)
InFlight == BagToSet(frames)

\* The handler frame f leaves pc in this step.
Leaves(f, pc) ==
    /\ BagIn(f, frames)
    /\ f.pc = pc
    /\ CopiesIn(f, frames') < CopiesIn(f, frames)

\* C1: whatever the interleaving of settle calls on one entry, the pool is
\* debited for that entry at most once.
C1_DebitAtMostOnce ==
    \A e \in EntryIds : payoutCalls[e] <= 1

\* C1 witness: the entry is won and debited once while a concurrent request,
\* which also decided a win for it, is still about to run its commit.
C1_Witness ==
    \E f \in InFlight :
        /\ f.pc = "commit" /\ f.won
        /\ entries[f.entryId].status = "won"
        /\ payoutCalls[f.entryId] = 1

\* A settle request is received in this step and opens a frame for entry e.
OpensFrameFor(e) ==
    \E f \in BagToSet(frames') :
        f.entryId = e /\ CopiesIn(f, frames') > CopiesIn(f, frames)

\* C2: settle called on an entry that is no longer pending answers with the
\* won value recorded on the entry and changes nothing: the entry, the pool
\* and the invoice stay as they were, no pool debit is made and no refund is
\* dispatched (the handler ends with its answer; it opens no frame that
\* could commit or send a refund).
C2_SettledEntryUntouched ==
    [][started' = started + 1 =>
         /\ \A e \in EntryIds :
               entries[e].status # "pending_vrf" => ~OpensFrameFor(e)
         /\ frames' = frames =>
               /\ UNCHANGED <<entries, pools, invoices, payoutCalls, refundCalls>>
               /\ \E e \in EntryIds :
                     /\ entries[e].status # "pending_vrf"
                     /\ responses' = responses \cup
                           {[entryId |-> e, won |-> (entries[e].won = 1),
                             randomValue |-> NullInt,
                             status |-> entries[e].status, code |-> 200]}]_vars

\* C2 witness: a won entry whose refund failed has been asked for again and
\* answered as won from the record, with nothing in flight.
C2_Witness ==
    \E r \in responses :
        /\ r.randomValue = NullInt /\ r.won
        /\ entries[r.entryId].won = 1
        /\ payoutCalls[r.entryId] = 1
        /\ refundCalls[r.entryId] = 1
        /\ frames = EmptyBag

\* C3: every settle call for one entry reports the same outcome, the won
\* value recorded on the entry (the committing call, the calls that lose the
\* compare-and-swap and the later calls alike).
C3_ResponsesMatchRecord ==
    \A r \in responses :
        entries[r.entryId].status # "pending_vrf" =>
            r.won = (entries[r.entryId].won = 1)

\* C4: the balance of every pool is never negative.
C4_BalanceNonNegative ==
    \A m \in Mints : pools[m] # NoPool => pools[m].total_balance >= 0

\* C4 witness: a pool that was seeded, credited and debited, whose guard has
\* also refused a debit: an entry was decided on a winning draw with no debit
\* made for it while the balance is below its refund.
C4_Witness ==
    \E e \in EntryIds :
        /\ PoolOf(entries[e]).total_wins > 0
        /\ PoolOf(entries[e]).total_premiums_collected > 0
        /\ entries[e].status # "pending_vrf"
        /\ payoutCalls[e] = 0
        /\ PoolOf(entries[e]).total_balance < RefundAmount(entries[e])
        /\ PoolOf(entries[e]).total_balance >= 0
        /\ \E r \in responses : r.entryId = e /\ r.randomValue = Race.draw

\* The commit of frame f, a provisional win, finds the pool balance below the
\* refund: the guarded debit fails inside the transaction.
DebitFailsIn(f) ==
    /\ Leaves(f, "commit")
    /\ f.won
    /\ entries[f.entryId].status = "pending_vrf"
    /\ PoolOf(entries[f.entryId]).total_balance < RefundAmount(entries[f.entryId])

\* C5: when the guarded debit fails inside the commit of a provisional win,
\* the entry is recorded Lost (status lost, won = 0) once the transaction
\* has committed.
C5_ForcedLossRecordedLost ==
    [][\A f \in InFlight :
         DebitFailsIn(f) =>
            /\ entries'[f.entryId].status = "lost"
            /\ entries'[f.entryId].won = 0]_vars

\* C6: an entry that is no longer pending has its invoice paid.
C6_DecidedEntryInvoicePaid ==
    \A e \in EntryIds :
        entries[e].status # "pending_vrf" =>
            invoices[entries[e].invoice_id].status = "paid"

\* The payable ceiling of a pool row, as the claim states it.
WithinCeiling(balance, minReserveBps, maxWinPctBps, refundAmount) ==
    LET availableForPayout == balance - ((balance * minReserveBps) \div 10000)
        maxSingleWin == (availableForPayout * maxWinPctBps) \div 10000
    IN refundAmount <= availableForPayout /\ refundAmount <= maxSingleWin

\* Entry e is recorded Won in this step.
RecordedWon(e) == entries[e].status # "won" /\ entries'[e].status = "won"

C8_StatusTransitions ==
    [][\A e \in EntryIds :
         LET a == entries[e].status
             b == entries'[e].status
         IN \/ a = b
            \/ a = "pending_vrf" /\ b \in {"won", "lost"}
            \/ a = "won" /\ b = "refund_failed"]_vars

\* C8 witness: one entry has gone pending_vrf -> won -> refund_failed and
\* another pending_vrf -> lost, and a request that decided otherwise for a
\* decided entry is still about to run its commit.
C8_Witness ==
    /\ \E e \in EntryIds : entries[e].status = "refund_failed"
    /\ \E e \in EntryIds : entries[e].status = "lost"
    /\ \E f \in InFlight :
          /\ f.pc = "commit"
          /\ entries[f.entryId].status \in {"lost", "refund_failed"}
          /\ f.won = (entries[f.entryId].status = "lost")

\* The refund of frame f fails in this step (sendRefund throws: the frame
\* ends with no refund reference recorded).
RefundFailsIn(f) ==
    /\ Leaves(f, "refund")
    /\ entries'[f.entryId].refund_tx_signature = NullText

\* What a failed refund leaves besides the entry's status: won still true,
\* the invoice paid, the pool as the commit left it.
FailedRefundKeepsCommit(f) ==
    /\ entries'[f.entryId].won = 1
    /\ invoices'[entries[f.entryId].invoice_id].status = "paid"
    /\ pools' = pools
    /\ PoolOf(entries[f.entryId]).total_wins >= 1
    /\ payoutCalls'[f.entryId] = 1

C10_DispatchAfterWonCommit ==
    \A e \in EntryIds :
        (refundCalls[e] > 0 \/ \E f \in InFlight : f.pc = "refund" /\ f.entryId = e) =>
            /\ entries[e].status \in {"won", "refund_failed"}
            /\ entries[e].won = 1
            /\ payoutCalls[e] = 1

\* C10 witness: a refund was sent for a won entry while another entry is
\* recorded lost and had none.
C10_Witness ==
    /\ \E e \in EntryIds : refundCalls[e] = 1 /\ entries[e].won = 1
    /\ \E e \in EntryIds : refundCalls[e] = 0 /\ entries[e].status = "lost"

\* C11: every entry committed as Won comes to have a refund reference or to
\* be in refund_failed: an entry in status won without a refund reference is
\* one whose committing handler is still about to send the refund.  (Only
\* that handler can record the reference or the failure, so a won entry
\* without a reference and without such a handler stays so for ever.)
C11_WonRefundObservable ==
    \A e \in EntryIds :
        (entries[e].status = "won" /\ entries[e].refund_tx_signature = NullText) =>
            \E f \in InFlight : f.pc = "refund" /\ f.entryId = e

\* The entries of invoice i that are still pending.
PendingEntriesOf(i) ==
    {e \in EntryIds : entries[e].invoice_id = i /\ entries[e].status = "pending_vrf"}

\* C12: in every reachable state each invoice has at most one entry in status
\* pending_vrf, however the POST /entry requests for it interleave.
C12_OnePendingEntryPerInvoice ==
    \A i \in DOMAIN invoices : Cardinality(PendingEntriesOf(i)) <= 1

\* A POST /entry request is received in this step.
EntryCallStep == lastCall'.flip # lastCall.flip

\* C13: while the pool of a currency is paused, every POST /entry request for
\* an invoice in that currency is rejected: it is not accepted, no entry is
\* inserted and the pool is not credited.
C13_PausedPoolRejectsEntries ==
    [][(EntryCallStep /\ \E m \in Mints : pools[m] # NoPool /\ pools[m].paused = 1) =>
          /\ lastCall'.outcome \notin {"accepted", "created"}
          /\ entries' = entries
          /\ pools' = pools]_vars

\* The calls of wallet w the limiter let through at a time in [from, to).
AdmittedIn(w, from, to) ==
    {k \in DOMAIN admitted :
        admitted[k][1] = w /\ from <= admitted[k][2] /\ admitted[k][2] < to}

\* C14: when a wallet's POST /entry call follows N = 5 calls of that wallet
\* made within the 60 seconds before it (so that N + 1 calls fall within 60
\* seconds), the call is answered 429, whatever the wallet did earlier.
C14_CallBeyondLimitThrottled ==
    [][(/\ EntryCallStep
        /\ lastCall'.outcome \notin {"missing_fields", "invalid_wallet", "invalid_premium"}
        /\ Cardinality(AdmittedIn(lastCall'.wallet, now - RATE_WINDOW_MS + 1, now + 1))
              >= MAX_PER_MINUTE)
          => lastCall'.code = 429]_vars

\* C15: in every interval of 60 seconds, wherever it starts, the limiter lets
\* through at most N = 5 POST /entry calls of one wallet.
C15_RollingWindowLimit ==
    \A k \in DOMAIN admitted :
        Cardinality(AdmittedIn(admitted[k][1], admitted[k][2],
                               admitted[k][2] + RATE_WINDOW_MS)) <= MAX_PER_MINUTE

\* The premiums of the first n rows of the entries table rows whose invoice
\* is in currency m.
RECURSIVE PremiumsPaid(_, _, _)
PremiumsPaid(rows, m, n) ==
    IF n = 0 THEN 0
    ELSE PremiumsPaid(rows, m, n - 1) +
         (IF invoices[rows[n].invoice_id].token_mint = m
          THEN rows[n].premium_paid ELSE 0)

\* The transaction of the POST /entry handler f commits in this step.
EntryCommitsIn(f) ==
    /\ BagIn(f, entryFrames)
    /\ CopiesIn(f, entryFrames') < CopiesIn(f, entryFrames)

\* C16: a successful POST /entry inserts exactly one entry, pending, won
\* unset, its stake the invoice amount and its premium the requested one, and
\* in the same step raises the pool's balance and premiums collected by the
\* premium and its entry count by one; entries are inserted in no other step,
\* and in every state the premiums a pool has collected are those of the
\* entries inserted (never an entry without its credit or a credit without
\* its entry).
C16_EntryAndCreditTogether ==
    [][/\ \A f \in BagToSet(entryFrames) :
             EntryCommitsIn(f) =>
                LET n == Len(entries)
                    pool == pools[f.token_mint]
                    credited == pools'[f.token_mint]
                IN /\ Len(entries') = n + 1
                   /\ SubSeq(entries', 1, n) = entries
                   /\ entries'[n + 1].invoice_id = f.invoiceId
                   /\ entries'[n + 1].status = "pending_vrf"
                   /\ entries'[n + 1].won = NullInt
                   /\ entries'[n + 1].invoice_amount = invoices[f.invoiceId].amount
                   /\ entries'[n + 1].premium_paid = f.premiumAmount
                   /\ credited.total_balance = pool.total_balance + f.premiumAmount
                   /\ credited.total_premiums_collected =
                         pool.total_premiums_collected + f.premiumAmount
                   /\ credited.total_entries = pool.total_entries + 1
                   /\ credited.total_payouts = pool.total_payouts
                   /\ credited.total_wins = pool.total_wins
       /\ Len(entries') # Len(entries) =>
             \E f \in BagToSet(entryFrames) : EntryCommitsIn(f)
       /\ \A m \in Mints :
             (IF pools'[m] = NoPool THEN 0 ELSE pools'[m].total_premiums_collected)
                = PremiumsPaid(entries', m, Len(entries'))]_vars

\* C16 witness: an entry inserted and a seeded pool credited with its premium,
\* while another request is between its reads and its transaction.
C16_Witness ==
    /\ Len(entries) = 1
    /\ entries[1].status = "pending_vrf"
    /\ pools["USDC"] # NoPool
    /\ pools["USDC"].total_premiums_collected = 1
    /\ pools["USDC"].total_balance = 37
    /\ pools["USDC"].total_entries = 2
    /\ entryFrames # EmptyBag

\* The latest POST /entry request is one the validation must turn down: a
\* field is absent, the wallet address is malformed or the premium is not a
\* positive integer.
InvalidRequest(call) ==
    \/ call.invoiceId = NullInt \/ call.wallet = NullInt \/ call.premium = NullInt
    \/ call.wallet < 1
    \/ call.premium <= 0

\* C17: a POST /entry request rejected for validation is answered 400 and
\* changes no state: no entry inserted, no pool created or credited, no
\* invoice changed, the wallet's rate-limit counter not advanced.
C17_ValidationRejectionChangesNothing ==
    [][(EntryCallStep /\ InvalidRequest(lastCall')) =>
          /\ lastCall'.code = 400
          /\ UNCHANGED <<entries, pools, invoices, rateLimiter, admitted>>]_vars

\* C17 witness: a request with a negative premium from a wallet that has
\* already had calls counted and an entry created was answered 400.
C17_Witness ==
    /\ lastCall.outcome = "invalid_premium"
    /\ lastCall.wallet = 1
    /\ lastCall.wallet \in DOMAIN rateLimiter
    /\ rateLimiter[lastCall.wallet].count = 2
    /\ Len(entries) = 1

\* C18: when the settlement of a pending entry, alone on its pool (the pool is
\* as the settlement read it), draws r < winProbabilityBps and the refund is
\* within the payable ceiling, the entry is committed won, the pool balance
\* falls by stake + premium, payouts rise by the same amount, the win count
\* rises by one and the invoice is marked paid; when r >= winProbabilityBps
\* (r = winProbabilityBps included) the entry is committed lost.
C18_SettlementOutcome ==
    [][\A f \in InFlight :
         (Leaves(f, "commit") /\ entries[f.entryId].status = "pending_vrf") =>
            LET e == f.entryId
                entry == entries[e]
                pool == PoolOf(entry)
                refundAmount == entry.invoice_amount + entry.premium_paid
                mint == invoices[entry.invoice_id].token_mint
            IN /\ (/\ pool.total_balance = f.pool.total_balance
                   /\ f.randomValue < entry.win_probability_bps
                   /\ WithinCeiling(pool.total_balance, pool.min_pool_reserve_bps,
                                    pool.max_win_pct_bps, refundAmount)) =>
                      /\ entries'[e].status = "won" /\ entries'[e].won = 1
                      /\ pools'[mint].total_balance = pool.total_balance - refundAmount
                      /\ pools'[mint].total_payouts = pool.total_payouts + refundAmount
                      /\ pools'[mint].total_wins = pool.total_wins + 1
                      /\ invoices'[entry.invoice_id].status = "paid"
               /\ f.randomValue >= entry.win_probability_bps =>
                      /\ entries'[e].status = "lost" /\ entries'[e].won = 0
                      /\ pools' = pools]_vars

\* C18 witness: one entry won on the draw just below its win probability and
\* was paid from the pool, another lost on the draw equal to it.
C18_Witness ==
    \E a, b \in responses :
        /\ a.randomValue = entries[a.entryId].win_probability_bps - 1
        /\ a.won /\ entries[a.entryId].status = "won"
        /\ payoutCalls[a.entryId] = 1
        /\ PoolOf(entries[a.entryId]).total_payouts = RefundAmount(entries[a.entryId])
        /\ b.randomValue = entries[b.entryId].win_probability_bps
        /\ ~b.won /\ entries[b.entryId].status = "lost"

\* floor(riskLevel * 100) clamped to [0, 5000], 0 when no number is supplied;
\* the risk level is held in thousandths of a percent.
ClampedBps(riskSlider) ==
    LET scaled == IF riskSlider = NullInt THEN 0 ELSE riskSlider \div 10
    IN IF scaled < 0 THEN 0 ELSE IF scaled > 5000 THEN 5000 ELSE scaled

\* C19: every entry has 0 <= winProbabilityBps <= 5000, the value is
\* floor(riskLevel * 100) clamped to [0, 5000] (0 when no numeric risk level
\* is supplied) when the entry is inserted, and it never changes afterwards.
C19_WinProbabilityBounded ==
    [][/\ \A e \in 1..Len(entries') :
             /\ entries'[e].win_probability_bps >= 0
             /\ entries'[e].win_probability_bps <= 5000
       /\ \A e \in EntryIds :
             entries'[e].win_probability_bps = entries[e].win_probability_bps
       /\ \A f \in BagToSet(entryFrames) :
             EntryCommitsIn(f) =>
                entries'[Len(entries')].win_probability_bps = ClampedBps(f.riskSlider)]_vars

\* C19 witness: an entry created from a fractional risk level (12.345%, 1234
\* bps) beside one created from a risk level above the cap (60%, 5000 bps).
C19_Witness ==
    \E a, b \in EntryIds :
        /\ entries[a].win_probability_bps = 1234
        /\ entries[b].win_probability_bps = 5000

\* C20: for every pool, premiums collected, payouts, entry count and win
\* count never decrease in any step.
C20_CountersMonotone ==
    [][\A m \in Mints :
         pools[m] # NoPool =>
            /\ pools'[m] # NoPool
            /\ pools'[m].total_premiums_collected >= pools[m].total_premiums_collected
            /\ pools'[m].total_payouts >= pools[m].total_payouts
            /\ pools'[m].total_entries >= pools[m].total_entries
            /\ pools'[m].total_wins >= pools[m].total_wins]_vars

\* C20 witness: a pool that has been credited with two entries and debited
\* for a win.
C20_Witness ==
    \E m \in Mints :
        /\ pools[m] # NoPool
        /\ pools[m].total_premiums_collected >= 2
        /\ pools[m].total_entries >= 2
        /\ pools[m].total_wins >= 1
        /\ pools[m].total_payouts >= 3

----------------------------------------------------------------------------
\* C21: while GET /pool reports the lottery unavailable for a currency (no
\* pool, or a balance below MIN_POOL_THRESHOLD), a POST /entry for an invoice
\* of that currency is rejected, and no entry of that currency is recorded
\* as won.
C21_UnavailableLotteryClosed ==
    [][/\ (EntryCallStep /\ lastCall'.invoiceId \in DOMAIN invoices
              /\ ~PoolSnapshot(invoices[lastCall'.invoiceId].token_mint).lotteryAvailable)
            => lastCall'.outcome \notin {"created", "accepted"}
       /\ \A e \in EntryIds :
            RecordedWon(e)
            => PoolSnapshot(invoices[entries[e].invoice_id].token_mint).lotteryAvailable
      ]_vars
----------------------------------------------------------------------------
\* C22: when a settlement commits and marks the invoice paid, the payment
\* reference on the invoice is the txSignature the client supplied in the
\* POST /entry request that created the entry.
C22_InvoiceCarriesSuppliedReference ==
    [][\A e \in EntryIds :
          (/\ entries[e].status = "pending_vrf"
           /\ entries'[e].status # "pending_vrf"
           /\ invoices'[entries[e].invoice_id].status = "paid")
          => invoices'[entries[e].invoice_id].tx_signature = supplied[e]]_vars
----------------------------------------------------------------------------
\* The handler frame f commits its entry as lost in this step.
CommitsLost(f) ==
    /\ Leaves(f, "commit")
    /\ entries[f.entryId].status = "pending_vrf"
    /\ entries'[f.entryId].status = "lost"

\* C23: a settlement that commits Lost, on a losing draw or by the solvency
\* override, leaves the pool's balance, payouts and win count as they were,
\* debits nothing and sends no refund: its handler answers without going on
\* to the refund, and no refund is ever sent for a lost entry.
C23_LostCommitLeavesPool ==
    [][/\ \A f \in InFlight :
            CommitsLost(f) =>
                /\ pools' = pools
                /\ payoutCalls' = payoutCalls
                /\ refundCalls' = refundCalls
                /\ \A g \in BagToSet(frames') :
                       ~(g.pc = "refund" /\ g.entryId = f.entryId)
       /\ \A e \in EntryIds :
            entries'[e].status = "lost" => refundCalls'[e] = 0
      ]_vars

\* C23 witness: with the pool holding a balance, one entry was committed
\* lost on a losing draw and another on a winning draw, by the override;
\* the pool has paid nothing and no refund was sent.
C23_Witness ==
    /\ \E r \in responses :
          /\ r.status = "lost" /\ r.randomValue # NullInt
          /\ r.randomValue >= entries[r.entryId].win_probability_bps
          /\ entries[r.entryId].status = "lost"
    /\ \E r \in responses :
          /\ r.status = "lost" /\ r.randomValue # NullInt
          /\ r.randomValue < entries[r.entryId].win_probability_bps
          /\ entries[r.entryId].status = "lost"
    /\ \A m \in Mints :
          /\ pools[m] # NoPool
          /\ pools[m].total_balance > 0
          /\ pools[m].total_payouts = 0 /\ pools[m].total_wins = 0
    /\ \A e \in EntryIds : refundCalls[e] = 0
    /\ frames = EmptyBag
----------------------------------------------------------------------------
\* C24: the balance a win's debit leaves is at least the reserve of the
\* balance it was taken from, floor(B * min_pool_reserve_bps / 10000) with B
\* the balance just before the debit, also when other settlements commit
\* between this settlement's read of the pool and its commit.
C24_DebitLeavesReserve ==
    [][\A m \in Mints :
          (/\ pools[m] # NoPool /\ pools'[m] # NoPool
           /\ pools'[m].total_payouts > pools[m].total_payouts)
          => pools'[m].total_balance >= ReserveRequired(pools[m])]_vars
----------------------------------------------------------------------------
\* The raw samples for which secureRandomInt(m) returns v.
SamplesGiving(m, v) ==
    {raw \in 0..SampleMax :
        SamplePass(m, raw).pc = "returned" /\ SamplePass(m, raw).result = v}

\* The last full multiple of m among the raw samples.
LastFullMultiple(m) ==
    CHOOSE k \in 0..SampleMax :
        /\ k % m = 0
        /\ \A j \in 0..SampleMax : j % m = 0 => j <= k

\* C25: secureRandomInt(m) returns an integer in [0, m); a raw sample is
\* rejected exactly when it is at or above the last full multiple of m; and
\* every value of [0, m) is returned for the same, positive number of raw
\* samples, so the result has no modulo bias.
C25_SecureRandomIntUnbiased ==
    sampler.pc # "idle" =>
        LET m == sampler.maxExclusive
        IN /\ sampler.pc = "rejected" <=> sampler.value >= LastFullMultiple(m)
           /\ sampler.pc = "returned" =>
                /\ sampler.result \in 0..(m - 1)
                /\ sampler.value \in SamplesGiving(m, sampler.result)
                /\ \A v \in 0..(m - 1) :
                     Cardinality(SamplesGiving(m, v))
                        = Cardinality(SamplesGiving(m, sampler.result))

\* C25 witness: for a range that does not divide the number of raw samples,
\* the largest accepted sample was reduced to the largest value of the range.
C25_Witness ==
    /\ sampler.pc = "returned"
    /\ (SampleMax + 1) % sampler.maxExclusive # 0
    /\ sampler.value = LastFullMultiple(sampler.maxExclusive) - 1
    /\ sampler.value >= sampler.maxExclusive
    /\ sampler.result = sampler.maxExclusive - 1
----------------------------------------------------------------------------
\* C26: an entry's won flag agrees with its status.  A pending entry has won
\* unset and no resolved_at; an entry in status won or refund_failed has
\* won = 1; an entry in status lost has won = 0; a decided entry has its
\* resolved_at.  So no entry is won and still pending.
C26_WonAgreesWithStatus ==
    \A e \in EntryIds :
        LET entry == entries[e]
        IN /\ entry.status = "pending_vrf" =>
                entry.won = NullInt /\ entry.resolved_at = NullInt
           /\ entry.status \in {"won", "refund_failed"} => entry.won = 1
           /\ entry.status = "lost" => entry.won = 0
           /\ entry.status # "pending_vrf" => entry.resolved_at # NullInt
           /\ entry.won = 1 => entry.status # "pending_vrf"

\* C26 witness: the store accepts refund_failed; one entry is lost and the
\* other, won and debited, is in refund_failed after its refund failed, with
\* no request in flight.
C26_Witness ==
    /\ frames = EmptyBag
    /\ \E e \in EntryIds : entries[e].status = "lost" /\ entries[e].won = 0
    /\ \E e \in EntryIds :
          /\ entries[e].status = "refund_failed" /\ entries[e].won = 1
          /\ payoutCalls[e] = 1 /\ refundCalls[e] = 1
----------------------------------------------------------------------------
\* The settle handler of frame f takes a step: its transaction or its refund.
SettleStepOf(f) == Leaves(f, "commit") \/ Leaves(f, "refund")

\* C27: a step of the settlement of one entry changes no other entry's row
\* and no other entry's invoice; it adds and removes no entry.
C27_SettlementTouchesOwnEntryOnly ==
    [][\A f \in InFlight :
          SettleStepOf(f) =>
              /\ Len(entries') = Len(entries)
              /\ \A e \in EntryIds \ {f.entryId} :
                    /\ entries'[e] = entries[e]
                    /\ invoices'[entries[e].invoice_id] = invoices[entries[e].invoice_id]
      ]_vars
----------------------------------------------------------------------------
\* The wallet has used up its calls in the limiter's current window.
OverLimit(w) ==
    /\ w \in DOMAIN rateLimiter
    /\ now <= rateLimiter[w].reset
    /\ rateLimiter[w].count >= MAX_PER_MINUTE

\* C28, as stated: POST /entry checks the invoice before the rate limiter,
\* so a well-formed request naming an unknown or an already paid invoice is
\* answered not-found or conflict and is not counted against the wallet's
\* rate limit.
C28_InvoiceCheckedBeforeLimiter ==
    [][(/\ EntryCallStep
        /\ ~InvalidRequest(lastCall')
        /\ \/ lastCall'.invoiceId \notin DOMAIN invoices
           \/ invoices[lastCall'.invoiceId].status = "paid")
          => /\ lastCall'.outcome \in {"not_found", "not_pending"}
             /\ UNCHANGED <<rateLimiter, admitted>>]_vars

\* C28, amended: POST /entry checks the request body first (answer 400,
\* nothing counted), then the rate limiter (answer 429 when the wallet is
\* over its limit, whatever invoice is named), and only then, the call
\* having been counted, the invoice (unknown: 404; not pending: 400) and
\* the existing pending entry (400); otherwise the entry is created.
C28_LimiterBeforeInvoiceChecks ==
    [][EntryCallStep =>
          LET c == lastCall'
          IN IF InvalidRequest(c)
             THEN c.code = 400 /\ UNCHANGED <<rateLimiter, admitted>>
             ELSE IF OverLimit(c.wallet)
             THEN /\ c.outcome = "throttled" /\ c.code = 429
                  /\ UNCHANGED <<rateLimiter, admitted, entries, pools, invoices>>
             ELSE /\ admitted' = Append(admitted, <<c.wallet, now>>)
                  /\ c.wallet \in DOMAIN rateLimiter'
                  /\ rateLimiter' # rateLimiter
                  /\ IF c.invoiceId \notin DOMAIN invoices
                     THEN c.outcome = "not_found" /\ c.code = 404
                     ELSE IF invoices[c.invoiceId].status # "pending"
                     THEN c.outcome = "not_pending" /\ c.code = 400
                     ELSE IF PendingEntriesOf(c.invoiceId) # {}
                     THEN c.outcome = "entry_exists" /\ c.code = 400
                     ELSE c.outcome = "created" /\ c.code = 200]_vars

\* C28 witness: a well-formed request naming an unknown invoice was answered
\* 429: the wallet's five counted calls had all been turned down on the
\* invoice they named (no entry exists), one of them for a paid invoice.
C28_Witness ==
    /\ lastCall.outcome = "throttled"
    /\ lastCall.invoiceId = EntryInput.unknownInvoice
    /\ Len(admitted) = MAX_PER_MINUTE
    /\ Len(entries) = 0
    /\ \E i \in DOMAIN invoices : invoices[i].status = "paid"
----------------------------------------------------------------------------
\* The POST /verify-payment handler of frame f, its payment verified, runs
\* to its end in this step.
VerifiedFinishes(f) ==
    /\ f.verified = "yes"
    /\ CopiesIn(f, verifyFrames') < CopiesIn(f, verifyFrames)

\* C29: marking a pending invoice as paid moves its status to paid and
\* records a paid-at time greater than zero: a verified POST /verify-payment
\* on a pending invoice leaves it paid, stamped with the current time and
\* the signature verified, and whatever route takes an invoice from pending
\* to paid records a positive paid_at.
C29_MarkPaidRecordsTime ==
    [][/\ \A f \in BagToSet(verifyFrames) :
            (VerifiedFinishes(f) /\ invoices[f.invoiceId].status = "pending") =>
                /\ invoices'[f.invoiceId].status = "paid"
                /\ invoices'[f.invoiceId].paid_at = NowSeconds
                /\ invoices'[f.invoiceId].tx_signature = f.txSignature
       /\ \A i \in DOMAIN invoices :
            (invoices[i].status = "pending" /\ invoices'[i].status = "paid") =>
                invoices'[i].paid_at > 0
      ]_vars

\* C29 witness: an invoice with a pending lottery entry was marked paid
\* outside the lottery, with the payment's signature and a positive paid_at.
C29_Witness ==
    \E i \in DOMAIN invoices :
        /\ invoices[i].status = "paid"
        /\ invoices[i].paid_at > 0
        /\ invoices[i].tx_signature \in TxSignatures
        /\ PendingEntriesOf(i) # {}
        /\ verifyFrames = EmptyBag
----------------------------------------------------------------------------
\* The sendRefund invocations made for entry e.
RefundsOf(e) == {r \in refunds : r.entryId = e}

\* C30: over any number and interleaving of settle requests, sendRefund is
\* invoked at most once for an entry, and each invocation is given the
\* entry's client wallet, exactly the stake (the invoice amount) plus the
\* premium paid, and the currency of the entry's invoice.
C30_RefundOncePerEntryWithItsAmount ==
    /\ \A e \in EntryIds :
          /\ refundCalls[e] <= 1
          /\ Cardinality(RefundsOf(e)) = refundCalls[e]
    /\ \A r \in refunds :
          LET entry == entries[r.entryId]
              invoice == invoices[entry.invoice_id]
          IN /\ r.toWallet = entry.client_wallet
             /\ r.amount = invoice.amount + entry.premium_paid
             /\ r.tokenMint = invoice.token_mint

\* C30 witness: the refund of an entry has been sent, to its wallet and for
\* stake plus premium, while another request for the same entry, which had
\* also decided a win, is still about to run its commit.
C30_Witness ==
    \E r \in refunds, f \in InFlight :
        /\ f.entryId = r.entryId /\ f.pc = "commit" /\ f.won
        /\ refundCalls[r.entryId] = 1
        /\ r.toWallet = SpecInput.wallet
        /\ r.amount = SpecInput.amount + 1
        /\ entries[r.entryId].refund_tx_signature # NullText
----------------------------------------------------------------------------
\* The entries of currency m that are recorded with won = 1.
WonEntriesOf(m) ==
    {e \in EntryIds : entries[e].won = 1
                        /\ invoices[entries[e].invoice_id].token_mint = m}

\* The refund amounts of the first n rows of the entries table that are
\* recorded with won = 1 and whose invoice is in currency m, summed.
RECURSIVE WonRefundsSum(_, _, _)
WonRefundsSum(rows, m, n) ==
    IF n = 0 THEN 0
    ELSE WonRefundsSum(rows, m, n - 1) +
         (IF rows[n].won = 1 /\ invoices[rows[n].invoice_id].token_mint = m
          THEN rows[n].invoice_amount + rows[n].premium_paid ELSE 0)

\* C31: every entry recorded with won = 1 has had exactly one pool debit of
\* stake plus premium: for each currency the pool's total_wins is the number
\* of its entries with won = 1 and total_payouts is the sum of their refund
\* amounts.
C31_WinsMatchDebits ==
    /\ \A e \in EntryIds : entries[e].won = 1 => payoutCalls[e] = 1
    /\ \A m \in Mints :
          IF pools[m] = NoPool THEN WonEntriesOf(m) = {}
          ELSE /\ pools[m].total_wins = Cardinality(WonEntriesOf(m))
               /\ pools[m].total_payouts = WonRefundsSum(entries, m, Len(entries))
----------------------------------------------------------------------------
\* C32: for every pool, in every reachable state, total_balance is the
\* initial balance POST /pool/init credited when it created the pool (0 when
\* it gave none, or when POST /entry created the pool) plus
\* total_premiums_collected minus total_payouts.
C32_BalanceIsSeedPlusPremiumsLessPayouts ==
    \A m \in Mints :
        pools[m] # NoPool =>
            pools[m].total_balance =
                seeded[m] + pools[m].total_premiums_collected - pools[m].total_payouts

\* C32 witness: a pool seeded by POST /pool/init has since been credited
\* with premiums and debited for a win.
C32_Witness ==
    \E m \in Mints :
        /\ pools[m] # NoPool
        /\ seeded[m] > 0
        /\ pools[m].total_premiums_collected > 0
        /\ pools[m].total_payouts > 0
        /\ pools[m].total_balance < seeded[m]
----------------------------------------------------------------------------
\* A settle request for entry e is in its draw loop or about to run its
\* transaction, and e is still pending.
SettlementRequested(e) ==
    /\ e \in EntryIds
    /\ entries[e].status = "pending_vrf"
    /\ \E f \in InFlight : f.entryId = e /\ f.pc \in {"draw", "commit"}

\* C33: once settlement is requested for a pending entry, the entry
\* eventually leaves pending_vrf: the draw loop ends and the transaction of
\* some request for the entry commits it; and no settle request is answered
\* with its entry still pending.
C33_RequestedSettlementDecides ==
    /\ \A e \in 1..EntryInvoices :
          SettlementRequested(e) ~> (e \in EntryIds /\ entries[e].status # "pending_vrf")
    /\ [](\A r \in responses : entries[r.entryId].status # "pending_vrf")

\* C33 witness: a request whose first sample was rejected is still in the
\* draw loop while its entry has been decided by another request.
C33_Witness ==
    \E f \in InFlight :
        /\ f.pc = "draw" /\ f.retried
        /\ entries[f.entryId].status # "pending_vrf"
----------------------------------------------------------------------------
\* C34: in the wager flow of the pay page, when /verify-payment has verified
\* the payment, the POST /entry call the page makes next for the same
\* invoice is accepted, so the page goes on to settle.
C34_VerifiedFlowReachesSettlement ==
    [][(/\ EntryCallStep
        /\ PageAt = "entry"
        /\ payFlow.verified = "yes"
        /\ lastCall'.invoiceId = payFlow.invoiceId)
          => /\ lastCall'.outcome = "created"
             /\ PageAt' = "settle"]_vars

----------------------------------------------------------------------------
\* C35: once an invoice is paid, its tx_signature and paid_at never change
\* again, whichever of verify-payment, the webhook or wager settlement runs
\* afterwards.
C35_PaidInvoiceKeepsReference ==
    [][\A i \in DOMAIN invoices :
          invoices[i].status = "paid"
            => /\ invoices'[i].tx_signature = invoices[i].tx_signature
               /\ invoices'[i].paid_at = invoices[i].paid_at]_vars

----------------------------------------------------------------------------
\* C36: on every pool row (balance >= 0, both basis-point columns within
\* 0..10000) the maxWin GET /pool reports is at most the maxSingleWin the
\* governor computes on the same row, and a refund of at most maxWin is not
\* downgraded by the governor.
C36_MaxWinWithinGovernor ==
    quote.pc # "idle" =>
       /\ quote.maxWin <= MaxSingleWin(pools["USDC"])
       /\ quote.maxWin <= AvailableForPayout(pools["USDC"])
       /\ (quote.pc = "judged" /\ quote.refundAmount <= quote.maxWin)
             => quote.payable

\* A refund equal to the reported maxWin passes the governor on a row where
\* the two roundings differ (maxWin below maxSingleWin).
C36_Witness ==
    /\ quote.pc = "judged"
    /\ quote.refundAmount = quote.maxWin
    /\ quote.maxWin < MaxSingleWin(pools["USDC"])
    /\ quote.payable

====
